---- MODULE Spec2Model ----
(***************************************************************************)
(* NautilusLB: one LoadBalancer (loadbalancer.go), its BackendServer       *)
(* objects (backend.go) and the publication path of the centralized        *)
(* discovery (kubernetes.go).                                              *)
(*                                                                         *)
(* BackendServer objects live in a heap (store); the pool, the handlers    *)
(* and the probe tasks hold references (object ids, 0 is nil), because     *)
(* discovery allocates fresh objects on every cycle and the probes keep    *)
(* the object they were started with.                                      *)
(***************************************************************************)
EXTENDS Integers, Sequences, FiniteSets, Bags, TLC

\* ------------------------------------------------------------------ bounds
MaxObj      == 2    \* BackendServer objects ever allocated
MaxPool     == 2    \* longest slice handed to SetBackendServers
NumHandlers == 2    \* concurrent callers of getNextBackend (SpecSel)
NumKeys     == 2    \* distinct (IP, Port) pairs
SelPool     == 3    \* longest pool a selection run starts from (SpecSel)
MaxLog      == 4    \* window of the selection log (SpecSel)
MaxShc      == 1    \* StartHealthChecks goroutines waiting to run
MaxRhc      == 1    \* runHealthCheck goroutines waiting per object
MaxDisc     == 3    \* BackendServer objects the discovery ever allocates
MaxEq       == 2    \* longest slice handed to backendsEqual (SpecEq)
MaxSvc      == 2    \* services in the list of one discovery cycle (SpecMat)
MaxNodes    == 2    \* nodes of the cluster (SpecMat)
MaxPorts    == 2    \* ports of one service (SpecMat)
MaxCfg      == 2    \* configurations in config.yaml (SpecAll)
MaxConn     == 1    \* connections one handler slot serves (SpecConn)
MaxRepl     == 4    \* BackendServer objects the publications of SpecCur allocate
MaxCalls    == 3    \* direct calls of StopHealthChecks (SpecStop)
MaxAcc      == 2    \* connections the accept loop of Start accepts (SpecStop)
MaxErr      == 1    \* errors listener.Accept() returns (SpecStop)

\* ------------------------------------------------------- program constants
maxRetries == 3     \* getNextBackend
retryLimit == 3     \* BackendServer.HealthCheck

Larger(a, b) == IF a > b THEN a ELSE b
HeapSize  == Larger(Larger(MaxObj, SelPool), Larger(MaxDisc, MaxRepl))
Obj       == 1..HeapSize
Nil       == 0
Handlers  == 1..NumHandlers
Keys      == 1..NumKeys
PortNames == {"http", "https"}
NoOne     == 0

\* lb.config.BackendPortName of the LoadBalancer under study
BackendPortName == "http"

VARIABLES
  store,            \* heap of BackendServer objects: [key, PortName, Healthy]
  nAlloc,           \* objects 1..nAlloc have been allocated
  backendServers,   \* lb.backendServers: sequence of object references
  nextServer,       \* lb.nextServer
  mu,               \* holder of lb.mu (NoOne, or the handler inside getNextBackend)
  healthCheckMap,   \* lb.healthCheckMap: set of keys
  healthCheckCache, \* lb.healthCheckCache: set of keys
  stopHealthChecks, \* TRUE when the channel lb.stopHealthChecks is closed
  stopChan,         \* TRUE when the channel lb.stopChan is closed
  Listener,         \* lb.Listener: "nil" or "open"
  started,          \* Start() has been called
  shc,              \* number of StartHealthChecks goroutines not yet run
  rhc,              \* per object: runHealthCheck goroutines before the map check
  rhcCache,         \* per object: runHealthCheck goroutines between unlock and HealthCheck
  loops,            \* per object: HealthCheck loops running on it
  failureCounter,   \* per object: failureCounter of its HealthCheck loop
  lastCheck,        \* per object: lastCheck of its HealthCheck loop (parity of the timestamp)
  stopPc,           \* position of the caller of Stop()
  panicked,         \* the process died on an unrecovered panic
  pc,               \* per handler: position in getNextBackend
  attempt,          \* per handler: loop variable i
  sel,              \* per handler: local variable server
  ret,              \* per handler: value returned by the last call
  why,              \* per handler: which return statement was taken
  adv,              \* per handler: cursor advances of the current call
  slp,              \* per handler: sleeps of the current call
  rrLog,            \* history (SpecSel): selections in cursor order
  slot              \* history (SpecSel): per handler, its pending entry of rrLog

progVars == <<nAlloc, backendServers, nextServer, mu, healthCheckMap,
              healthCheckCache, stopHealthChecks, stopChan, Listener, started,
              stopPc, shc, rhc, rhcCache, loops, failureCounter, lastCheck,
              panicked>>
callVars == <<pc, attempt, sel, ret, why, adv, slp>>
histVars == <<rrLog, slot>>

lbVars    == <<healthCheckMap, healthCheckCache, stopHealthChecks, stopChan,
               Listener, started, stopPc>>
taskVars  == <<shc, rhc, rhcCache, loops, failureCounter, lastCheck>>

\* ----------------------------------------------------------------- helpers
Range(s) == {s[i] : i \in 1..Len(s)}

\* the connection handler that runs against publications and probes (Spec)
Caller == 1

\* what a caller may put into one BackendServer it constructs
ServerFields == [key : Keys, PortName : PortNames, Healthy : BOOLEAN]

\* the i-th (IP, Port) of a slice built by a direct caller of SetBackendServers
keyAt(i) == ((i - 1) % NumKeys) + 1

\* slices of n BackendServers as the callers of SetBackendServers build them
ApiSlices(n) == {f \in [1..n -> ServerFields] : \A i \in 1..n : f[i].key = keyAt(i)}

DefaultServer == [key |-> 1, PortName |-> BackendPortName, Healthy |-> TRUE]

\* the loop at getNextBackend lines 243-257
FilterNoGate(servers) == servers

filterBackends(servers) ==
  SelectSeq(servers, LAMBDA o : store[o].PortName = BackendPortName)

\* lb.nextServer = (lb.nextServer + 1) % len(filteredBackends)
advanceStuck(cur, n) == cur % n

advanceNoWrap(cur, n) == cur + 1

advanceCursor(cur, n) == (cur + 1) % n

\* if server.Healthy { return server }
passAlways(o) == TRUE

passesHealthGate(o) == store[o].Healthy

\* for i := range maxRetries ... if i < maxRetries-1 { sleep }
lastAttemptLate(i) == ~(i < maxRetries)

lastAttempt(i) == ~(i < maxRetries - 1)

\* ------------------------------------------- runs of the discovery functions
VARIABLES
  eqOld,            \* backendsEqual: argument old
  eqNew,            \* backendsEqual: argument new
  eqPc,             \* "input" before the calls, "done" after
  eqRes,            \* backendsEqual(old, new)
  eqSwap            \* backendsEqual(new, old)

VARIABLES
  matCfg,           \* cfg.BackendPortName of the configuration being materialized
  matNodes,         \* the nodes of the cluster: per node its Status.Addresses
  matN,             \* services of the list processed so far
  matSvc,           \* the service processed last
  matFetch,         \* node-list fetch of the last iteration: "none", "ok", "failed"
  matLast,          \* serviceBackends of the last iteration
  matBackends,      \* backends, the slice processServicesForConfig accumulates
  matBackendID,     \* backendID
  matFailed,        \* history: a node-list fetch has failed in this cycle
  matRef            \* history: bag of the endpoints the services processed so far call for

VARIABLES
  allCfgs,          \* configs; loadBalancers[i] was created from configs[i]
  allPools,         \* per load balancer: the keys of lb.backendServers, in order
  allGo,            \* per load balancer: go lb.StartHealthChecks() of the current cycle
  allPub,           \* history: per load balancer, SetBackendServers calls of the current cycle
  allSrc,           \* history: per load balancer, the configuration whose slice the last call carried
  allTodo,          \* keys of namespaceConfigs the range loop has not visited yet
  allGroup,         \* the namespace key visited last
  allFetch,         \* outcome of its Services().List: "none", "ok", "failed"
  allQuery,         \* the namespace that List was scoped to ("" is unscoped)
  allInv            \* per port name the keys materialized from that list

VARIABLES
  hc,               \* per handler: position in HandleConnection
  tmp,              \* per handler: the value read for ActiveConnections++ / --
  backendConn,      \* per handler: backendConn, "none", "open", "nil" or "closed"
  relays,           \* per handler: copyData goroutines not yet finished
  served,           \* per handler: connections accepted so far
  ActiveConnections,\* per BackendServer: the field ActiveConnections
  conn,             \* per handler: the client connection, "none", its kind while open, "closed"
  copying,          \* per handler: destinations of the copyData goroutines still running
  halfClosed,       \* per handler: connections whose write side CloseWrite() has closed
  lastCopy          \* per handler: destination and io.Copy error of the copyData that ended last

VARIABLES
  sincePub,         \* history: selections since the last publication (2: two or more, or none yet)
  cursorAtPub       \* history: lb.nextServer when the last publication was made

VARIABLES
  shcCalls,         \* history: direct calls of StopHealthChecks made so far
  accepts,          \* history: connections the accept loop of Start has accepted
  returned,         \* Start has returned from its accept loop
  tasks,            \* HandleConnection goroutines spawned and not yet finished
  acceptErrs        \* history: errors listener.Accept() has returned so far

VARIABLES
  mainN,            \* len(configData.BackendConfigurations)
  mainPc,           \* position of main: "create", "wait", "signal", "done"
  mainI,            \* load balancers main has created and started so far
  proxy,            \* per load balancer of main: "none", "starting", "listening",
                    \* "failed" (bind error), "stopped" (Stop was called on it)
  mainAccepts,      \* per load balancer of main: connections accepted
  discoverer,       \* go kubernetes.DiscoverK8sServicesForAll(...) has been issued
  cycles,           \* iterations of its discovery loop begun so far
  notified,         \* signal.Notify(sigChan, os.Interrupt, syscall.SIGTERM) has run
  signalled,        \* an interrupt or terminate signal has arrived
  process           \* "running", "panic", "killed" (by the signal), "exit0"

eqVars  == <<eqOld, eqNew, eqPc, eqRes, eqSwap>>
curVars == <<sincePub, cursorAtPub>>
lifeVars == <<shcCalls, accepts, returned, tasks, acceptErrs>>
mainVars == <<mainN, mainPc, mainI, proxy, mainAccepts, discoverer, cycles,
              notified, signalled, process>>
lateAux == <<curVars, lifeVars, mainVars>>
connVars == <<hc, tmp, backendConn, relays, served, ActiveConnections, conn, copying,
              halfClosed, lastCopy>>
allVars == <<allCfgs, allPools, allGo, allPub, allSrc, allTodo, allGroup, allFetch,
             allQuery, allInv>>
matVars == <<matCfg, matNodes, matN, matSvc, matFetch, matLast, matBackends,
             matBackendID, matFailed, matRef>>
earlyAux == <<eqVars, matVars, allVars, connVars>>
auxVars == <<eqVars, matVars, allVars, connVars, lateAux>>

EqIdle ==
  /\ eqOld = <<>>
  /\ eqNew = <<>>
  /\ eqPc = "input"
  /\ eqRes = FALSE
  /\ eqSwap = FALSE

AnnotationKey == "nautiluslb.cloudresty.io/enabled"

NoAnnotations == [k \in {} |-> ""]

NoService == [Annotations |-> NoAnnotations, Type |-> "", ClusterIP |-> "", Ports |-> <<>>]

MatIdle ==
  /\ matCfg = BackendPortName
  /\ matNodes = <<>>
  /\ matN = 0
  /\ matSvc = NoService
  /\ matFetch = "none"
  /\ matLast = <<>>
  /\ matBackends = <<>>
  /\ matBackendID = 1
  /\ matFailed = FALSE
  /\ matRef = EmptyBag

AllIdle ==
  /\ allCfgs = <<>>
  /\ allPools = <<>>
  /\ allGo = <<>>
  /\ allPub = <<>>
  /\ allSrc = <<>>
  /\ allTodo = {}
  /\ allGroup = ""
  /\ allFetch = "none"
  /\ allQuery = ""
  /\ allInv = [pn \in PortNames |-> <<>>]

NoCopy == [dst |-> "none", err |-> "nil"]

ConnIdle ==
  /\ hc = [h \in Handlers |-> "idle"]
  /\ tmp = [h \in Handlers |-> 0]
  /\ backendConn = [h \in Handlers |-> "none"]
  /\ relays = [h \in Handlers |-> 0]
  /\ served = [h \in Handlers |-> 0]
  /\ ActiveConnections = [o \in Obj |-> 0]
  /\ conn = [h \in Handlers |-> "none"]
  /\ copying = [h \in Handlers |-> {}]
  /\ halfClosed = [h \in Handlers |-> {}]
  /\ lastCopy = [h \in Handlers |-> NoCopy]

CurIdle ==
  /\ sincePub = 2
  /\ cursorAtPub = 0

LifeIdle ==
  /\ shcCalls = 0
  /\ accepts = 0
  /\ returned = FALSE
  /\ tasks = 0
  /\ acceptErrs = 0

MainIdle ==
  /\ mainN = 0
  /\ mainPc = "create"
  /\ mainI = 0
  /\ proxy = [p \in 1..MaxCfg |-> "none"]
  /\ mainAccepts = [p \in 1..MaxCfg |-> 0]
  /\ discoverer = FALSE
  /\ cycles = 0
  /\ notified = FALSE
  /\ signalled = FALSE
  /\ process = "running"

LateIdle == CurIdle /\ LifeIdle /\ MainIdle

AuxIdle == EqIdle /\ MatIdle /\ AllIdle /\ ConnIdle /\ LateIdle

vars == <<store, progVars, callVars, histVars, auxVars>>

LbInit ==
  /\ store = [o \in Obj |-> DefaultServer]
  /\ nAlloc = 0
  /\ backendServers = <<>>
  /\ nextServer = 0
  /\ mu = NoOne
  /\ healthCheckMap = {}
  /\ healthCheckCache = {}
  /\ stopHealthChecks = FALSE
  /\ stopChan = FALSE
  /\ Listener = "nil"
  /\ started = FALSE
  /\ shc = 0
  /\ rhc = [o \in Obj |-> 0]
  /\ rhcCache = [o \in Obj |-> 0]
  /\ loops = [o \in Obj |-> 0]
  /\ failureCounter = [o \in Obj |-> 0]
  /\ lastCheck = [o \in Obj |-> 0]
  /\ stopPc = "idle"
  /\ panicked = FALSE
  /\ pc = [h \in Handlers |-> "idle"]
  /\ attempt = [h \in Handlers |-> 0]
  /\ sel = [h \in Handlers |-> Nil]
  /\ ret = [h \in Handlers |-> Nil]
  /\ why = [h \in Handlers |-> "none"]
  /\ adv = [h \in Handlers |-> 0]
  /\ slp = [h \in Handlers |-> 0]
  /\ rrLog = <<>>
  /\ slot = [h \in Handlers |-> 0]

Init == LbInit /\ AuxIdle

\* ------------------------------------------------------- heap of the objects
\* An object nothing refers to any more is unreachable and its memory is
\* reclaimed by the runtime.
LiveNext(o) ==
  \/ o \in Range(backendServers')
  \/ \E h \in Handlers : sel'[h] = o \/ ret'[h] = o
  \/ rhc'[o] > 0 \/ rhcCache'[o] > 0 \/ loops'[o] > 0
  \/ \E i \in 1..Len(rrLog') : rrLog'[i].srv = o

\* the heap st after the step
sweep(st) ==
  store' = [o \in Obj |-> IF LiveNext(o) THEN st[o] ELSE DefaultServer]

\* ------------------------------------------------------------- publications
\* the heap after the caller has built n objects with the fields f
allocServers(n, f) ==
  [o \in Obj |-> IF o \in (nAlloc + 1)..(nAlloc + n) THEN f[o - nAlloc] ELSE store[o]]

\* the slice of the n objects just built
freshSlice(n) == [i \in 1..n |-> nAlloc + i]

\* SetBackendServers called directly (as the tests do): the caller builds n
\* BackendServer objects with fields of its choice; SetBackendServers is the
\* single assignment lb.backendServers = servers (no lock, cursor untouched).
cursorReset(cur) == 0

cursorAfterPublish(cur) == cur

publishCore(n, f, cap) ==
  /\ ~panicked
  /\ nAlloc + n <= cap
  /\ nAlloc' = nAlloc + n
  /\ backendServers' = freshSlice(n)
  /\ nextServer' = cursorAfterPublish(nextServer)
  /\ UNCHANGED <<mu, lbVars, taskVars, panicked, callVars, histVars>>
  /\ sweep(allocServers(n, f))

SetBackendServers ==
  \E n \in 0..MaxPool : \E f \in ApiSlices(n) :
    /\ publishCore(n, f, MaxObj)
    /\ UNCHANGED auxVars

\* backendsEqual(old, new) on the (IP, Port) keys of the two slices
backendsEqual(old, new) ==
  /\ Len(old) = Len(new)
  /\ \A i \in 1..Len(new) : \E j \in 1..Len(old) : old[j].key = new[i].key

\* slices processServicesForConfig can return for this configuration: every
\* object has PortName = cfg.BackendPortName and Healthy = true
DiscoveredSlices(n) ==
  {f \in [1..n -> ServerFields] :
     \A i \in 1..n : f[i].PortName = BackendPortName /\ f[i].Healthy}

currentBackends == [i \in 1..Len(backendServers) |-> store[backendServers[i]]]

\* discoverServicesForNamespace, the body of the loop for this configuration:
\* compare, SetBackendServers, go lb.StartHealthChecks()
discoverServicesForNamespace ==
  \E n \in 0..MaxPool : \E backends \in DiscoveredSlices(n) :
    /\ ~panicked
    /\ nAlloc + n <= MaxDisc
    /\ shc < MaxShc
    /\ ~backendsEqual(currentBackends, backends)
    /\ nAlloc' = nAlloc + n
    /\ backendServers' = freshSlice(n)
    /\ shc' = shc + 1
    /\ UNCHANGED <<nextServer, mu, lbVars, rhc, rhcCache, loops, failureCounter,
                   lastCheck, panicked, callVars, histVars>>
    /\ UNCHANGED auxVars
    /\ sweep(allocServers(n, backends))

\* ------------------------------------------------------------ getNextBackend
\* a caller (HandleConnection, a test) enters getNextBackend
callCore(h) ==
  /\ ~panicked
  /\ pc[h] \in {"idle", "done"}
  /\ pc' = [pc EXCEPT ![h] = "loop"]
  /\ attempt' = [attempt EXCEPT ![h] = 0]
  /\ sel' = [sel EXCEPT ![h] = Nil]
  /\ ret' = [ret EXCEPT ![h] = Nil]
  /\ why' = [why EXCEPT ![h] = "none"]
  /\ adv' = [adv EXCEPT ![h] = 0]
  /\ slp' = [slp EXCEPT ![h] = 0]
  /\ UNCHANGED progVars

\* lines 233-238: lock, first read of lb.backendServers
lockCore(h) ==
  /\ ~panicked
  /\ pc[h] = "loop"
  /\ mu = NoOne
  /\ IF Len(backendServers) = 0
       THEN /\ pc' = [pc EXCEPT ![h] = "done"]
            /\ ret' = [ret EXCEPT ![h] = Nil]
            /\ why' = [why EXCEPT ![h] = "empty"]
            /\ UNCHANGED mu
       ELSE /\ pc' = [pc EXCEPT ![h] = "locked"]
            /\ mu' = h
            /\ UNCHANGED <<ret, why>>
  /\ UNCHANGED <<nAlloc, backendServers, nextServer, lbVars, taskVars,
                 panicked, attempt, sel, adv, slp>>

\* lines 240-270: second read of lb.backendServers, filter, advance, index,
\* unlock; an index outside filteredBackends is a run-time panic at line 268,
\* raised with the mutex held
selectCore(h) ==
  /\ ~panicked
  /\ pc[h] = "locked"
  /\ mu = h
  /\ LET filteredBackends == filterBackends(backendServers)
         next == advanceCursor(nextServer, Len(filteredBackends)) IN
       IF Len(filteredBackends) = 0
         THEN /\ pc' = [pc EXCEPT ![h] = "done"]
              /\ ret' = [ret EXCEPT ![h] = Nil]
              /\ why' = [why EXCEPT ![h] = "nomatch"]
              /\ mu' = NoOne
              /\ UNCHANGED <<nextServer, sel, adv, panicked>>
         ELSE IF next \in 0..(Len(filteredBackends) - 1)
           THEN /\ nextServer' = next
                /\ sel' = [sel EXCEPT ![h] = filteredBackends[next + 1]]
                /\ adv' = [adv EXCEPT ![h] = @ + 1]
                /\ pc' = [pc EXCEPT ![h] = "check"]
                /\ mu' = NoOne
                /\ UNCHANGED <<ret, why, panicked>>
           ELSE /\ nextServer' = next
                /\ panicked' = TRUE
                /\ UNCHANGED <<mu, pc, sel, adv, ret, why>>
  /\ UNCHANGED <<nAlloc, backendServers, lbVars, taskVars, attempt, slp>>

\* lines 272-281: read of server.Healthy outside the lock, return or retry;
\* the local variable server is dead once the iteration is over
checkCore(h) ==
  /\ ~panicked
  /\ pc[h] = "check"
  /\ sel' = [sel EXCEPT ![h] = Nil]
  /\ IF passesHealthGate(sel[h])
       THEN /\ pc' = [pc EXCEPT ![h] = "done"]
            /\ ret' = [ret EXCEPT ![h] = sel[h]]
            /\ why' = [why EXCEPT ![h] = "ok"]
       ELSE IF lastAttempt(attempt[h])
         THEN /\ pc' = [pc EXCEPT ![h] = "done"]
              /\ ret' = [ret EXCEPT ![h] = Nil]
              /\ why' = [why EXCEPT ![h] = "exhausted"]
         ELSE /\ pc' = [pc EXCEPT ![h] = "sleep"]
              /\ UNCHANGED <<ret, why>>
  /\ UNCHANGED <<progVars, attempt, adv, slp>>

\* line 277: time.Sleep(100ms) is over, next iteration
wakeCore(h) ==
  /\ ~panicked
  /\ pc[h] = "sleep"
  /\ pc' = [pc EXCEPT ![h] = "loop"]
  /\ attempt' = [attempt EXCEPT ![h] = @ + 1]
  /\ slp' = [slp EXCEPT ![h] = @ + 1]
  /\ UNCHANGED <<progVars, sel, ret, why, adv>>

getNextBackend_Call(h)   == callCore(h)   /\ UNCHANGED histVars /\ UNCHANGED auxVars /\ sweep(store)
getNextBackend_Lock(h)   == lockCore(h)   /\ UNCHANGED histVars /\ UNCHANGED auxVars /\ sweep(store)
getNextBackend_Select(h) == selectCore(h) /\ UNCHANGED histVars /\ UNCHANGED auxVars /\ sweep(store)
getNextBackend_Check(h)  == checkCore(h)  /\ UNCHANGED histVars /\ UNCHANGED auxVars /\ sweep(store)
getNextBackend_Wake(h)   == wakeCore(h)   /\ UNCHANGED histVars /\ UNCHANGED auxVars /\ sweep(store)

\* --------------------------------------------------- health-check goroutines
\* go lb.StartHealthChecks() issued by a caller of the LoadBalancer
StartHealthChecks_Go ==
  /\ ~panicked
  /\ shc < MaxShc
  /\ shc' = shc + 1
  /\ UNCHANGED <<nAlloc, backendServers, nextServer, mu, lbVars, rhc,
                 rhcCache, loops, failureCounter, lastCheck, panicked, callVars,
                 histVars>>
  /\ UNCHANGED auxVars
  /\ sweep(store)

\* StartHealthChecks: snapshot of lb.backendServers under the lock, then one
\* go lb.runHealthCheck(server) per element
StartHealthChecks ==
  /\ ~panicked
  /\ shc > 0
  /\ mu = NoOne
  /\ \A o \in Range(backendServers) : rhc[o] < MaxRhc
  /\ shc' = shc - 1
  /\ rhc' = [o \in Obj |->
               rhc[o] + Cardinality({i \in 1..Len(backendServers) : backendServers[i] = o})]
  /\ UNCHANGED <<nAlloc, backendServers, nextServer, mu, lbVars, rhcCache,
                 loops, failureCounter, lastCheck, panicked, callVars, histVars>>
  /\ UNCHANGED auxVars
  /\ sweep(store)

\* _, ok := lb.healthCheckMap[key]
neverRunning(key) == FALSE

alreadyRunning(key) == key \in healthCheckMap

\* runHealthCheck lines 299-310: the check-and-set of healthCheckMap under lb.mu
runHealthCheck_Enter(o) ==
  /\ ~panicked
  /\ rhc[o] > 0
  /\ mu = NoOne
  /\ rhc' = [rhc EXCEPT ![o] = @ - 1]
  /\ IF alreadyRunning(store[o].key)
       THEN UNCHANGED <<healthCheckMap, rhcCache>>
       ELSE /\ healthCheckMap' = healthCheckMap \cup {store[o].key}
            /\ rhcCache' = [rhcCache EXCEPT ![o] = @ + 1]
  /\ UNCHANGED <<nAlloc, backendServers, nextServer, mu, healthCheckCache,
                 stopHealthChecks, stopChan, Listener, started, stopPc, shc, loops,
                 failureCounter, lastCheck, panicked, callVars, histVars>>
  /\ UNCHANGED auxVars
  /\ sweep(store)

\* runHealthCheck lines 315-325: healthCheckCache is read and written without
\* the lock, then server.HealthCheck starts with failureCounter = 0.  Two
\* goroutines in this section access the map concurrently; the runtime either
\* lets both through or aborts the process (concurrent map access).
runHealthCheck_Cache(o) ==
  /\ ~panicked
  /\ rhcCache[o] > 0
  /\ \/ /\ healthCheckCache' = healthCheckCache \cup {store[o].key}
        /\ rhcCache' = [rhcCache EXCEPT ![o] = @ - 1]
        /\ loops' = [loops EXCEPT ![o] = @ + 1]
        /\ failureCounter' = [failureCounter EXCEPT ![o] = 0]
        /\ UNCHANGED panicked
     \/ /\ \E p \in Obj : p # o /\ rhcCache[p] > 0
        /\ panicked' = TRUE
        /\ UNCHANGED <<healthCheckCache, rhcCache, loops, failureCounter>>
  /\ UNCHANGED <<nAlloc, backendServers, nextServer, mu, healthCheckMap,
                 stopHealthChecks, stopChan, Listener, started, stopPc, shc, rhc,
                 lastCheck, callVars, histVars>>
  /\ UNCHANGED auxVars
  /\ sweep(store)

\* if failureCounter >= retryLimit && server.Healthy { server.Healthy = false }
healthAfterFailure(fc, healthy) == IF fc >= retryLimit /\ healthy THEN FALSE ELSE healthy

\* failureCounter = 0; if !server.Healthy { server.Healthy = true }
healthAfterSuccess(healthy) == IF ~healthy THEN TRUE ELSE healthy

\* one iteration of BackendServer.HealthCheck whose dial succeeded
\* (lines 62-107; the second conn.Close() only returns an error)
HealthCheck_Ok(o) ==
  /\ ~panicked
  /\ loops[o] > 0
  /\ failureCounter' = [failureCounter EXCEPT ![o] = 0]
  /\ lastCheck' = [lastCheck EXCEPT ![o] = 1 - @]
  /\ UNCHANGED <<nAlloc, backendServers, nextServer, mu, lbVars, shc, rhc, rhcCache,
                 loops, panicked, callVars, histVars>>
  /\ UNCHANGED auxVars
  /\ sweep([store EXCEPT ![o].Healthy = healthAfterSuccess(@)])

\* one iteration whose dial failed: lines 44-60 count the failure and apply the
\* debounce rule, then line 90 calls conn.Close() on the nil net.Conn that
\* DialTimeout returned with the error: nil dereference, unrecovered panic
HealthCheck_Fail(o) ==
  /\ ~panicked
  /\ loops[o] > 0
  /\ failureCounter' = [failureCounter EXCEPT ![o] = @ + 1]
  /\ panicked' = TRUE
  /\ UNCHANGED <<nAlloc, backendServers, nextServer, mu, lbVars, shc, rhc, rhcCache,
                 loops, lastCheck, callVars, histVars>>
  /\ UNCHANGED auxVars
  /\ sweep([store EXCEPT ![o].Healthy = healthAfterFailure(failureCounter'[o], @)])

\* ------------------------------------------------------------ Start and Stop
\* Start lines 53-72: go lb.StartHealthChecks(), then net.Listen; a bind
\* failure panics (the accept loop is entered with the listener open)
Start ==
  /\ ~panicked
  /\ ~started
  /\ shc < MaxShc
  /\ started' = TRUE
  /\ shc' = shc + 1
  /\ \/ Listener' = "open" /\ UNCHANGED panicked
     \/ panicked' = TRUE /\ UNCHANGED Listener
  /\ UNCHANGED <<nAlloc, backendServers, nextServer, mu, healthCheckMap,
                 healthCheckCache, stopHealthChecks, stopChan, stopPc, rhc, rhcCache,
                 loops, failureCounter, lastCheck, callVars, histVars>>
  /\ UNCHANGED auxVars
  /\ sweep(store)

\* StopHealthChecks lines 332-346, run under lb.mu: the select on the channel
\* returns if it is closed already, otherwise close(lb.stopHealthChecks);
\* closing a closed channel panics
neverClosed == FALSE

alreadyClosed == stopHealthChecks

StopHealthChecksCore ==
  /\ ~panicked
  /\ mu = NoOne
  /\ IF alreadyClosed
       THEN UNCHANGED <<stopHealthChecks, panicked>>
       ELSE /\ stopHealthChecks' = TRUE
            /\ panicked' = stopHealthChecks
  /\ UNCHANGED <<nAlloc, backendServers, nextServer, mu, healthCheckMap,
                 healthCheckCache, stopChan, Listener, started, taskVars,
                 callVars, histVars>>
  /\ sweep(store)

StopHealthChecks ==
  /\ StopHealthChecksCore
  /\ UNCHANGED stopPc
  /\ UNCHANGED auxVars

\* Stop lines 399-409: close and clear the listener, close(lb.stopChan);
\* closing a closed channel panics
Stop_Close ==
  /\ ~panicked
  /\ stopPc = "idle"
  /\ Listener' = "nil"
  /\ IF stopChan
       THEN panicked' = TRUE /\ UNCHANGED <<stopChan, stopPc>>
       ELSE stopChan' = TRUE /\ stopPc' = "healthChecks" /\ UNCHANGED panicked
  /\ UNCHANGED <<nAlloc, backendServers, nextServer, mu, healthCheckMap,
                 healthCheckCache, stopHealthChecks, started, taskVars, callVars,
                 histVars>>
  /\ UNCHANGED auxVars
  /\ sweep(store)

\* Stop lines 412-429: lb.StopHealthChecks(), then the wait loop, which returns
\* at the first tick because areHealthChecksStopped() reads the closed channel
Stop_HealthChecks ==
  /\ stopPc = "healthChecks"
  /\ StopHealthChecksCore
  /\ stopPc' = "idle"
  /\ UNCHANGED auxVars

\* ------------------------------------------------------------------- Spec
\* the LoadBalancer driven through its methods: publications, selections and
\* health-check goroutines in any interleaving
Next ==
  \/ SetBackendServers
  \/ StartHealthChecks_Go
  \/ StartHealthChecks
  \/ \E o \in Obj : runHealthCheck_Enter(o)
  \/ \E o \in Obj : runHealthCheck_Cache(o)
  \/ \E o \in Obj : HealthCheck_Ok(o)
  \/ \E o \in Obj : HealthCheck_Fail(o)
  \/ getNextBackend_Call(Caller)
  \/ getNextBackend_Lock(Caller)
  \/ getNextBackend_Select(Caller)
  \/ getNextBackend_Check(Caller)
  \/ getNextBackend_Wake(Caller)

Spec == Init /\ [][Next]_vars

\* ---------------------------------------------------------------- SpecDisc
\* the LoadBalancer as main.go runs it: Start, the discovery publications with
\* their probe reconciliations, the probes, Stop
NextDisc ==
  \/ Start
  \/ discoverServicesForNamespace
  \/ StartHealthChecks
  \/ \E o \in Obj : runHealthCheck_Enter(o)
  \/ \E o \in Obj : runHealthCheck_Cache(o)
  \/ \E o \in Obj : HealthCheck_Ok(o)
  \/ \E o \in Obj : HealthCheck_Fail(o)
  \/ StopHealthChecks
  \/ Stop_Close
  \/ Stop_HealthChecks

SpecDisc == Init /\ [][NextDisc]_vars

\* every started goroutine is scheduled again and every probe loop keeps
\* iterating (the dial outcome stays the environment's choice); publications,
\* Start and Stop are up to their callers
FairDisc ==
  /\ SpecDisc
  /\ WF_vars(StartHealthChecks)
  /\ WF_vars(Stop_HealthChecks)
  /\ \A o \in Obj : WF_vars(runHealthCheck_Enter(o))
  /\ \A o \in Obj : WF_vars(runHealthCheck_Cache(o))
  /\ \A o \in Obj : WF_vars(HealthCheck_Ok(o) \/ HealthCheck_Fail(o))

\* ----------------------------------------------------------------- SpecPub
\* the discovery publishing into a LoadBalancer whose connection handler is
\* selecting: publications, their probes, getNextBackend (a published
\* BackendServer is Healthy until a probe fails and a failed probe ends the
\* process, so the call never reaches its retry sleep here)
NextPub ==
  \/ discoverServicesForNamespace
  \/ StartHealthChecks
  \/ \E o \in Obj : runHealthCheck_Enter(o)
  \/ \E o \in Obj : runHealthCheck_Cache(o)
  \/ \E o \in Obj : HealthCheck_Ok(o)
  \/ \E o \in Obj : HealthCheck_Fail(o)
  \/ getNextBackend_Call(Caller)
  \/ getNextBackend_Lock(Caller)
  \/ getNextBackend_Select(Caller)
  \/ getNextBackend_Check(Caller)

SpecPub == Init /\ [][NextPub]_vars

\* ----------------------------------------------------------------- SpecMix
\* a LoadBalancer whose owner sets a pool of its own through SetBackendServers
\* (as the tests do, with endpoints it knows to be unhealthy) and which the
\* centralized discovery then publishes into, with probes and a selecting
\* handler
NextMix ==
  \/ SetBackendServers
  \/ discoverServicesForNamespace
  \/ StartHealthChecks
  \/ \E o \in Obj : runHealthCheck_Enter(o)
  \/ \E o \in Obj : runHealthCheck_Cache(o)
  \/ \E o \in Obj : HealthCheck_Ok(o)
  \/ \E o \in Obj : HealthCheck_Fail(o)
  \/ getNextBackend_Call(Caller)
  \/ getNextBackend_Lock(Caller)
  \/ getNextBackend_Select(Caller)
  \/ getNextBackend_Check(Caller)
  \/ getNextBackend_Wake(Caller)

SpecMix == Init /\ [][NextMix]_vars

\* ---------------------------------------------------------------- SpecStop
\* one LoadBalancer under Start, Stop and direct calls of StopHealthChecks in
\* any order, with the accept loop of Start
lifeFrame == UNCHANGED <<earlyAux, curVars, mainVars>>

\* Start line 93 as it would be without the go statement: the loop runs the
\* handler itself and reaches Accept again only when no handler is running
dispatchInline(n) == n = 0

\* Start line 93: go lb.HandleConnection(conn) returns at once, the loop
\* reaches Accept again whatever the handlers spawned so far are doing
dispatchGo(n) == TRUE

\* Start lines 74-96, one iteration of the accept loop: the select returns if
\* lb.stopChan is closed; otherwise listener.Accept() yields a connection
\* (go lb.HandleConnection(conn)) or an error (continue), which is the only
\* outcome on a closed listener
Start_Accept ==
  /\ ~panicked
  /\ started
  /\ ~returned
  /\ IF stopChan
       THEN returned' = TRUE /\ UNCHANGED <<accepts, tasks, acceptErrs>>
       ELSE /\ dispatchGo(tasks)
            /\ \/ /\ Listener = "open"
                  /\ accepts < MaxAcc
                  /\ accepts' = accepts + 1
                  /\ tasks' = tasks + 1
                  /\ UNCHANGED acceptErrs
               \/ /\ acceptErrs < MaxErr
                  /\ acceptErrs' = acceptErrs + 1
                  /\ UNCHANGED <<accepts, tasks>>
            /\ UNCHANGED returned
  /\ UNCHANGED <<shcCalls, progVars, callVars, histVars>>
  /\ lifeFrame
  /\ sweep(store)

\* HandleConnection lines 100-200: one handler goroutine runs to its end
HandleConnection_Return ==
  /\ ~panicked
  /\ tasks > 0
  /\ tasks' = tasks - 1
  /\ UNCHANGED <<shcCalls, accepts, returned, acceptErrs, progVars, callVars,
                 histVars>>
  /\ lifeFrame
  /\ sweep(store)

Stop_StopHealthChecks ==
  /\ shcCalls < MaxCalls
  /\ StopHealthChecksCore
  /\ shcCalls' = shcCalls + 1
  /\ UNCHANGED <<stopPc, accepts, returned, tasks, acceptErrs>>
  /\ lifeFrame

NextStop ==
  \/ Start
  \/ Start_Accept
  \/ HandleConnection_Return
  \/ StartHealthChecks
  \/ Stop_StopHealthChecks
  \/ Stop_Close
  \/ Stop_HealthChecks

SpecStop == Init /\ [][NextStop]_vars

\* the goroutine of Start is scheduled and clients keep connecting: an
\* iteration of the accept loop that can run does run; nothing is assumed
\* about the handlers, which may never finish, nor about Stop being called
FairStop == SpecStop /\ WF_vars(Start_Accept)

\* ----------------------------------------------------------------- SpecCur
\* publications of caller-built slices between the selections of one handler
Cur_SetBackendServers ==
  \E n \in 0..MaxPool : \E f \in ApiSlices(n) :
    /\ publishCore(n, f, MaxRepl)
    /\ sincePub' = 0
    /\ cursorAtPub' = nextServer
    /\ UNCHANGED <<earlyAux, lifeVars, mainVars>>

Cur_Select(h) ==
  /\ selectCore(h)
  /\ sincePub' = IF pc'[h] = "check" /\ sincePub < 2 THEN sincePub + 1 ELSE sincePub
  /\ UNCHANGED <<cursorAtPub, histVars, earlyAux, lifeVars, mainVars>>
  /\ sweep(store)

NextCur ==
  \/ Cur_SetBackendServers
  \/ getNextBackend_Call(Caller)
  \/ getNextBackend_Lock(Caller)
  \/ Cur_Select(Caller)
  \/ getNextBackend_Check(Caller)
  \/ getNextBackend_Wake(Caller)

SpecCur == Init /\ [][NextCur]_vars

\* ----------------------------------------------------------------- SpecSel
\* selections against a pool that no publication and no probe touches: any
\* pool of up to SelPool objects, any cursor value earlier calls can have left
InitSel ==
  /\ \E n \in 0..SelPool : \E f \in ApiSlices(n) :
       /\ store = [o \in Obj |-> IF o <= n THEN f[o] ELSE DefaultServer]
       /\ nAlloc = n
       /\ backendServers = [i \in 1..n |-> i]
  /\ nextServer \in 0..(SelPool - 1)
  /\ mu = NoOne
  /\ healthCheckMap = {}
  /\ healthCheckCache = {}
  /\ stopHealthChecks = FALSE
  /\ stopChan = FALSE
  /\ Listener = "nil"
  /\ started = FALSE
  /\ shc = 0
  /\ rhc = [o \in Obj |-> 0]
  /\ rhcCache = [o \in Obj |-> 0]
  /\ loops = [o \in Obj |-> 0]
  /\ failureCounter = [o \in Obj |-> 0]
  /\ lastCheck = [o \in Obj |-> 0]
  /\ stopPc = "idle"
  /\ panicked = FALSE
  /\ pc = [h \in Handlers |-> "idle"]
  /\ attempt = [h \in Handlers |-> 0]
  /\ sel = [h \in Handlers |-> Nil]
  /\ ret = [h \in Handlers |-> Nil]
  /\ why = [h \in Handlers |-> "none"]
  /\ adv = [h \in Handlers |-> 0]
  /\ slp = [h \in Handlers |-> 0]
  /\ rrLog = <<>>
  /\ slot = [h \in Handlers |-> 0]
  /\ AuxIdle

\* the selection made by handler h enters the log in cursor order
logSelection(h) ==
  IF pc'[h] # "check"
    THEN UNCHANGED histVars
    ELSE LET e == [srv |-> sel'[h], st |-> "pending"] IN
      IF Len(rrLog) < MaxLog
        THEN /\ rrLog' = Append(rrLog, e)
             /\ slot' = [slot EXCEPT ![h] = Len(rrLog) + 1]
        ELSE /\ rrLog' = Append(Tail(rrLog), e)
             /\ slot' = [g \in Handlers |->
                           IF g = h THEN MaxLog
                           ELSE IF slot[g] > 0 THEN slot[g] - 1 ELSE 0]

\* the outcome of the attempt of handler h is written into its log entry
logOutcome(h) ==
  IF slot[h] = 0
    THEN UNCHANGED histVars
    ELSE /\ rrLog' = [rrLog EXCEPT ![slot[h]].st =
                        IF pc'[h] = "done" /\ ret'[h] # Nil THEN "ok" ELSE "no"]
         /\ slot' = [slot EXCEPT ![h] = 0]

Sel_Call(h)   == callCore(h)   /\ UNCHANGED histVars /\ UNCHANGED auxVars /\ sweep(store)
Sel_Lock(h)   == lockCore(h)   /\ UNCHANGED histVars /\ UNCHANGED auxVars /\ sweep(store)
Sel_Select(h) == selectCore(h) /\ logSelection(h) /\ UNCHANGED auxVars /\ sweep(store)
Sel_Check(h)  == checkCore(h)  /\ logOutcome(h) /\ UNCHANGED auxVars /\ sweep(store)
Sel_Wake(h)   == wakeCore(h)   /\ UNCHANGED histVars /\ UNCHANGED auxVars /\ sweep(store)

NextSel ==
  \/ \E h \in Handlers : Sel_Call(h)
  \/ \E h \in Handlers : Sel_Lock(h)
  \/ \E h \in Handlers : Sel_Select(h)
  \/ \E h \in Handlers : Sel_Check(h)
  \/ \E h \in Handlers : Sel_Wake(h)

SpecSel == InitSel /\ [][NextSel]_vars

\* ------------------------------------------------------------------ SpecEq
\* backendsEqual as a function of its two arguments
lbState == <<store, progVars, callVars, histVars>>

Ips   == {"10.0.0.1", "::1"}
Ports == {80, 8080}

\* BackendServer values as the callers of backendsEqual build them
EqServers ==
  {[ID |-> m[1], IP |-> ip, Port |-> port, PortName |-> m[2]] :
     ip \in Ips, port \in Ports, m \in {<<1, "http">>, <<2, "https">>}}

EqSlices == UNION {[1..n -> EqServers] : n \in 0..MaxEq}

\* fmt.Sprintf("%s:%d", b.IP, b.Port)
fmtKey(ip, port) == ip \o ":" \o ToString(port)

\* the map keys backendsEqual computes for the elements of a slice
keyed(servers) ==
  [i \in 1..Len(servers) |-> [key |-> fmtKey(servers[i].IP, servers[i].Port)]]

InitEq ==
  /\ LbInit
  /\ eqOld \in EqSlices
  /\ eqNew \in EqSlices
  /\ eqPc = "input"
  /\ eqRes = FALSE
  /\ eqSwap = FALSE
  /\ MatIdle
  /\ AllIdle
  /\ ConnIdle
  /\ LateIdle

\* result := backendsEqual(tt.old, tt.new), and the call with the arguments
\* swapped
TestBackendsEqual ==
  /\ eqPc = "input"
  /\ eqPc' = "done"
  /\ eqRes' = backendsEqual(keyed(eqOld), keyed(eqNew))
  /\ eqSwap' = backendsEqual(keyed(eqNew), keyed(eqOld))
  /\ UNCHANGED <<eqOld, eqNew, lbState, matVars, allVars, connVars, lateAux>>

NextEq == TestBackendsEqual

SpecEq == InitEq /\ [][NextEq]_vars

\* ----------------------------------------------------------------- SpecMat
\* processServicesForConfig over the service list of one cycle, one loop
\* iteration per step
\* service.Annotations as the API server returns it
AnnotationMaps == {NoAnnotations, AnnotationKey :> "true", AnnotationKey :> "True"}

ServiceTypes == {"NodePort", "LoadBalancer", "ClusterIP", "ExternalName"}

\* corev1.ServicePort; TargetPort is TargetPort.IntVal (0 for a named target
\* port), NodePort is 0 when no node port is allocated
ServicePorts ==
  {[Name |-> "http",  NodePort |-> 30080, TargetPort |-> 8080],
   [Name |-> "http",  NodePort |-> 0,     TargetPort |-> 0],
   [Name |-> "https", NodePort |-> 30443, TargetPort |-> 8443]}

\* service.Ports: port names are unique within one service
PortLists ==
  {ps \in UNION {[1..n -> ServicePorts] : n \in 0..MaxPorts} :
     \A i, j \in 1..Len(ps) : ps[i].Name = ps[j].Name => i = j}

\* the i-th service of the list
ServicesAt(i) ==
  [Annotations : AnnotationMaps, Type : ServiceTypes,
   ClusterIP : {"10.96.0." \o ToString(i)}, Ports : PortLists]

\* node.Status.Addresses of the i-th node
NodeShapes(i) ==
  {<<[Type |-> "ExternalIP", Address |-> "203.0.113." \o ToString(i)],
     [Type |-> "InternalIP", Address |-> "10.0.0." \o ToString(i)]>>,
   <<[Type |-> "ExternalIP", Address |-> "203.0.113." \o ToString(i)]>>,
   <<[Type |-> "InternalIP", Address |-> "10.0.0." \o ToString(i)],
     [Type |-> "InternalIP", Address |-> "fd00::" \o ToString(i)]>>}

NodeLists ==
  UNION {{f \in [1..n -> UNION {NodeShapes(i) : i \in 1..n}] :
            \A i \in 1..n : f[i] \in NodeShapes(i)} : n \in 0..MaxNodes}

\* getNodeIPs lines 368-373: the first InternalIP of a node, then break
RECURSIVE nodeAddress(_, _)
nodeAddress(addresses, j) ==
  IF j > Len(addresses) THEN <<>>
  ELSE IF addresses[j].Type = "InternalIP" THEN <<addresses[j].Address>>
  ELSE nodeAddress(addresses, j + 1)

\* getNodeIPs lines 367-374
RECURSIVE nodeLoop(_, _, _)
nodeLoop(nodes, i, ips) ==
  IF i > Len(nodes) THEN ips
  ELSE nodeLoop(nodes, i + 1, ips \o nodeAddress(nodes[i], 1))

\* getNodeIPs: err is the outcome of Nodes().List
getNodeIPsStale(err, nodes) == nodeLoop(nodes, 1, <<>>)

getNodeIPs(err, nodes) == IF err THEN <<>> ELSE nodeLoop(nodes, 1, <<>>)

\* if enabled, ok := service.Annotations[...]; !ok || enabled != "true" { continue }
annotationPresent(service) == AnnotationKey \in DOMAIN service.Annotations

annotationEnabled(service) ==
  /\ AnnotationKey \in DOMAIN service.Annotations
  /\ service.Annotations[AnnotationKey] = "true"

\* if port.Name != cfg.BackendPortName { continue }
portAny(port, cfgPortName) == TRUE

portMatches(port, cfgPortName) == ~(port.Name # cfgPortName)

\* lines 496-507: one BackendServer per node IP
RECURSIVE nodeIPLoop(_, _, _, _, _)
nodeIPLoop(nodeIPs, k, port, backends, id) ==
  IF k > Len(nodeIPs) THEN backends
  ELSE nodeIPLoop(nodeIPs, k + 1, port,
         Append(backends, [ID |-> id + Len(backends), IP |-> nodeIPs[k],
                           Port |-> port.NodePort, PortName |-> port.Name,
                           Weight |-> 1, Healthy |-> TRUE]), id)

\* lines 490-508: the port loop of a NodePort or LoadBalancer service
RECURSIVE nodePortLoop(_, _, _, _, _, _, _)
nodePortLoop(ports, p, cfgPortName, err, nodes, backends, id) ==
  IF p > Len(ports) THEN backends
  ELSE IF ~portMatches(ports[p], cfgPortName)
    THEN nodePortLoop(ports, p + 1, cfgPortName, err, nodes, backends, id)
    ELSE nodePortLoop(ports, p + 1, cfgPortName, err, nodes,
           nodeIPLoop(getNodeIPs(err, nodes), 1, ports[p], backends, id), id)

\* lines 511-528: the port loop of a ClusterIP service
RECURSIVE clusterIPLoop(_, _, _, _, _, _)
clusterIPLoop(ports, p, cfgPortName, clusterIP, backends, id) ==
  IF p > Len(ports) THEN backends
  ELSE IF ~portMatches(ports[p], cfgPortName)
    THEN clusterIPLoop(ports, p + 1, cfgPortName, clusterIP, backends, id)
    ELSE IF ports[p].TargetPort > 0
      THEN clusterIPLoop(ports, p + 1, cfgPortName, clusterIP,
             Append(backends, [ID |-> id + Len(backends), IP |-> clusterIP,
                               Port |-> ports[p].TargetPort, PortName |-> ports[p].Name,
                               Weight |-> 1, Healthy |-> TRUE]), id)
      ELSE clusterIPLoop(ports, p + 1, cfgPortName, clusterIP, backends, id)

processServiceForConfig(service, cfgPortName, err, nodes, id) ==
  CASE service.Type \in {"NodePort", "LoadBalancer"} ->
         nodePortLoop(service.Ports, 1, cfgPortName, err, nodes, <<>>, id)
    [] service.Type = "ClusterIP" ->
         clusterIPLoop(service.Ports, 1, cfgPortName, service.ClusterIP, <<>>, id)
    [] OTHER -> <<>>

\* getNodeIPs is reached while this service is processed
fetchesNodes(service, cfgPortName) ==
  /\ annotationEnabled(service)
  /\ service.Type \in {"NodePort", "LoadBalancer"}
  /\ \E p \in 1..Len(service.Ports) : portMatches(service.Ports[p], cfgPortName)

\* the endpoints a service calls for: on every node with an internal address
\* the node port of each port named cfgPortName, or its cluster IP with the
\* target port of each such port
firstInternalOf(node) ==
  node[CHOOSE j \in 1..Len(node) :
         /\ node[j].Type = "InternalIP"
         /\ \A l \in 1..(j - 1) : node[l].Type # "InternalIP"].Address

endpointOrigins(service, cfgPortName, nodes) ==
  IF AnnotationKey \notin DOMAIN service.Annotations
       \/ service.Annotations[AnnotationKey] # "true"
    THEN {}
    ELSE LET named == {p \in 1..Len(service.Ports) : service.Ports[p].Name = cfgPortName}
             inner == {n \in 1..Len(nodes) :
                         \E j \in 1..Len(nodes[n]) : nodes[n][j].Type = "InternalIP"}
         IN CASE service.Type \in {"NodePort", "LoadBalancer"} ->
                   {<<p, n>> : p \in named, n \in inner}
              [] service.Type = "ClusterIP" ->
                   {<<p, 0>> : p \in {q \in named : service.Ports[q].TargetPort > 0}}
              [] OTHER -> {}

endpointOf(o, service, nodes) ==
  IF o[2] = 0
    THEN <<service.ClusterIP, service.Ports[o[1]].TargetPort, service.Ports[o[1]].Name>>
    ELSE <<firstInternalOf(nodes[o[2]]), service.Ports[o[1]].NodePort, service.Ports[o[1]].Name>>

endpointBag(service, cfgPortName, nodes) ==
  LET os == endpointOrigins(service, cfgPortName, nodes) IN
    [e \in {endpointOf(o, service, nodes) : o \in os} |->
       Cardinality({o \in os : endpointOf(o, service, nodes) = e})]

InitMat ==
  /\ LbInit
  /\ EqIdle
  /\ AllIdle
  /\ ConnIdle
  /\ LateIdle
  /\ matCfg \in PortNames
  /\ matNodes \in NodeLists
  /\ matN = 0
  /\ matSvc = NoService
  /\ matFetch = "none"
  /\ matLast = <<>>
  /\ matBackends = <<>>
  /\ matBackendID = 1
  /\ matFailed = FALSE
  /\ matRef = EmptyBag

\* one iteration of the loop of processServicesForConfig (lines 467-479)
processServicesForConfig ==
  \E service \in ServicesAt(matN + 1) : \E err \in BOOLEAN :
    LET serviceBackends ==
          IF ~annotationEnabled(service) THEN <<>>
          ELSE processServiceForConfig(service, matCfg, err, matNodes, matBackendID)
    IN /\ matN < MaxSvc
       /\ err => fetchesNodes(service, matCfg)
       /\ matN' = matN + 1
       /\ matSvc' = service
       /\ matFetch' = IF ~fetchesNodes(service, matCfg) THEN "none"
                       ELSE IF err THEN "failed" ELSE "ok"
       /\ matLast' = serviceBackends
       /\ matBackends' = matBackends \o serviceBackends
       /\ matBackendID' = matBackendID + Len(serviceBackends)
       /\ matFailed' = (matFailed \/ err)
       /\ matRef' = matRef (+) endpointBag(service, matCfg, matNodes)
       /\ UNCHANGED <<matCfg, matNodes, lbState, eqVars, allVars, connVars, lateAux>>

NextMat == processServicesForConfig

SpecMat == InitMat /\ [][NextMat]_vars

\* ----------------------------------------------------------------- SpecAll
\* DiscoverK8sServicesForAll over the load balancers of main.go: the range
\* loop over the namespace groups, one group per step
ConfigNames == {"web", "api"}
Namespaces  == {"", "prod", "all"}

\* the configurations LoadConfig accepts: Validate wants Name, ListenerAddress
\* and BackendPortName non-empty
ValidConfigs == [Name : ConfigNames, Namespace : Namespaces, BackendPortName : PortNames]

ConfigLists == UNION {[1..n -> ValidConfigs] : n \in 1..MaxCfg}

\* what processServicesForConfig can return from one service list, as the
\* sequence of the (IP, Port) keys
KeySlices == {<<>>, <<1, 2>>, <<1, 1>>}

asServers(keys) == [i \in 1..Len(keys) |-> [key |-> keys[i]]]

\* lines 394-399: configToLB[config.Name] = loadBalancers[i], a later entry
\* with the same name replaces the earlier one
configToLB(configs) ==
  [name \in {configs[i].Name : i \in 1..Len(configs)} |->
     CHOOSE i \in 1..Len(configs) :
       /\ configs[i].Name = name
       /\ \A j \in 1..Len(configs) : configs[j].Name = name => j <= i]

\* lines 408-411
namespaceKey(cfg) == IF cfg.Namespace = "" THEN "all" ELSE cfg.Namespace

\* lines 427-430: the namespace the service list is asked for
searchNamespace(namespace) == IF namespace = "all" THEN "" ELSE namespace

\* lines 406-413: per namespace key the configurations, in the order of configs
namespaceConfigs(configs) ==
  [ns \in {namespaceKey(configs[i]) : i \in 1..Len(configs)} |->
     SelectSeq([i \in 1..Len(configs) |-> i],
               LAMBDA i : namespaceKey(configs[i]) = ns)]

\* if err != nil { log; return }
proceedsAnyway(err) == FALSE

returnsOnError(err) == err

\* lines 441-459: the loop over the configurations of one group; st holds the
\* pools, the StartHealthChecks goroutines and the publication history
RECURSIVE configLoop(_, _, _, _, _)
configLoop(cfgIdx, k, configs, inventory, st) ==
  IF k > Len(cfgIdx) THEN st
  ELSE LET c        == cfgIdx[k]
           backends == inventory[configs[c].BackendPortName]
           lb       == configToLB(configs)[configs[c].Name]
       IN IF ~backendsEqual(asServers(st.pools[lb]), asServers(backends))
            THEN configLoop(cfgIdx, k + 1, configs, inventory,
                   [pools |-> [st.pools EXCEPT ![lb] = backends],
                    go    |-> [st.go EXCEPT ![lb] = @ + 1],
                    pub   |-> [st.pub EXCEPT ![lb] = @ + 1],
                    src   |-> [st.src EXCEPT ![lb] = c]])
            ELSE configLoop(cfgIdx, k + 1, configs, inventory, st)

InitAll ==
  /\ LbInit
  /\ EqIdle
  /\ MatIdle
  /\ ConnIdle
  /\ LateIdle
  /\ allCfgs \in ConfigLists
  /\ allPools = [i \in 1..Len(allCfgs) |-> <<>>]
  /\ allGo = [i \in 1..Len(allCfgs) |-> 0]
  /\ allPub = [i \in 1..Len(allCfgs) |-> 0]
  /\ allSrc = [i \in 1..Len(allCfgs) |-> 0]
  /\ allTodo = {}
  /\ allGroup = ""
  /\ allFetch = "none"
  /\ allQuery = ""
  /\ allInv = [pn \in PortNames |-> <<>>]

\* lines 402-413: a new cycle starts, the configurations are grouped
DiscoverK8sServicesForAll ==
  /\ allTodo = {}
  /\ allTodo' = DOMAIN namespaceConfigs(allCfgs)
  /\ allGo' = [i \in 1..Len(allCfgs) |-> 0]
  /\ allPub' = [i \in 1..Len(allCfgs) |-> 0]
  /\ allSrc' = [i \in 1..Len(allCfgs) |-> 0]
  /\ allGroup' = ""
  /\ allFetch' = "none"
  /\ allQuery' = ""
  /\ allInv' = [pn \in PortNames |-> <<>>]
  /\ UNCHANGED <<allCfgs, allPools, lbState, eqVars, matVars, connVars, lateAux>>

\* lines 416-418 with discoverServicesForNamespace (425-460): the range loop
\* visits one namespace key (in the order the map iteration yields), the
\* service list is fetched and the configurations of the group are served
discoverServicesForNamespace_Group ==
  \E namespace \in allTodo : \E err \in BOOLEAN :
    \E inventory \in [PortNames -> KeySlices] :
      LET st == IF returnsOnError(err)
                  THEN [pools |-> allPools, go |-> allGo, pub |-> allPub, src |-> allSrc]
                  ELSE configLoop(namespaceConfigs(allCfgs)[namespace], 1, allCfgs,
                                  IF err THEN [pn \in PortNames |-> <<>>] ELSE inventory,
                                  [pools |-> allPools, go |-> allGo, pub |-> allPub,
                                   src |-> allSrc])
      IN /\ allTodo' = allTodo \ {namespace}
         /\ allGroup' = namespace
         /\ allFetch' = IF err THEN "failed" ELSE "ok"
         /\ allQuery' = searchNamespace(namespace)
         /\ allInv' = IF err THEN [pn \in PortNames |-> <<>>] ELSE inventory
         /\ allPools' = st.pools
         /\ allGo' = st.go
         /\ allPub' = st.pub
         /\ allSrc' = st.src
         /\ UNCHANGED <<allCfgs, lbState, eqVars, matVars, connVars, lateAux>>

NextAll ==
  \/ DiscoverK8sServicesForAll
  \/ discoverServicesForNamespace_Group

SpecAll == InitAll /\ [][NextAll]_vars

\* ---------------------------------------------------------------- SpecConn
\* connection handlers (one goroutine per accepted connection) on a pool that
\* no publication touches
otherAux == <<eqVars, matVars, allVars, lateAux>>

InitConn ==
  /\ \E n \in 1..MaxPool : \E f \in ApiSlices(n) :
       /\ store = [o \in Obj |-> IF o <= n THEN f[o] ELSE DefaultServer]
       /\ nAlloc = n
       /\ backendServers = [i \in 1..n |-> i]
  /\ nextServer = 0
  /\ mu = NoOne
  /\ healthCheckMap = {}
  /\ healthCheckCache = {}
  /\ stopHealthChecks = FALSE
  /\ stopChan = FALSE
  /\ Listener = "open"
  /\ started = TRUE
  /\ shc = 0
  /\ rhc = [o \in Obj |-> 0]
  /\ rhcCache = [o \in Obj |-> 0]
  /\ loops = [o \in Obj |-> 0]
  /\ failureCounter = [o \in Obj |-> 0]
  /\ lastCheck = [o \in Obj |-> 0]
  /\ stopPc = "idle"
  /\ panicked = FALSE
  /\ pc = [h \in Handlers |-> "idle"]
  /\ attempt = [h \in Handlers |-> 0]
  /\ sel = [h \in Handlers |-> Nil]
  /\ ret = [h \in Handlers |-> Nil]
  /\ why = [h \in Handlers |-> "none"]
  /\ adv = [h \in Handlers |-> 0]
  /\ slp = [h \in Handlers |-> 0]
  /\ rrLog = <<>>
  /\ slot = [h \in Handlers |-> 0]
  /\ AuxIdle

\* the net.Conn a handler is given: the *net.TCPConn that Start accepted, or
\* any other net.Conn a caller of HandleConnection passes (net.Pipe has no
\* CloseWrite)
ConnKinds == {"tcp", "pipe"}

\* what io.Copy returns: nil at end of stream, or the error of a Read or Write
CopyErrors == {"nil", "EOF", "reset"}

\* the two relays by their destination: copyData(backendConn, conn, ...) and
\* copyData(conn, backendConn, ...)
Relays == {"backendConn", "conn"}

\* Start lines 74-96 and HandleConnection lines 100-123: a connection is
\* accepted, its handler starts and calls getNextBackend
HandleConnection_Begin(h) ==
  /\ hc[h] = "idle"
  /\ served[h] < MaxConn
  /\ Listener = "open"
  /\ callCore(h)
  /\ hc' = [hc EXCEPT ![h] = "getNextBackend"]
  /\ served' = [served EXCEPT ![h] = @ + 1]
  /\ backendConn' = [backendConn EXCEPT ![h] = "none"]
  /\ \E kind \in ConnKinds : conn' = [conn EXCEPT ![h] = kind]
  /\ copying' = [copying EXCEPT ![h] = {}]
  /\ halfClosed' = [halfClosed EXCEPT ![h] = {}]
  /\ lastCopy' = [lastCopy EXCEPT ![h] = NoCopy]
  /\ UNCHANGED <<tmp, relays, ActiveConnections, histVars, otherAux>>
  /\ sweep(store)

\* lines 123-140: getNextBackend has returned; nil ends the handler (the
\* deferred conn.Close() runs), otherwise ActiveConnections++ reads the field
HandleConnection_Chosen(h) ==
  /\ ~panicked
  /\ hc[h] = "getNextBackend"
  /\ pc[h] = "done"
  /\ IF ret[h] = Nil
       THEN /\ hc' = [hc EXCEPT ![h] = "idle"]
            /\ conn' = [conn EXCEPT ![h] = "closed"]
            /\ UNCHANGED tmp
       ELSE /\ hc' = [hc EXCEPT ![h] = "inc"]
            /\ tmp' = [tmp EXCEPT ![h] = ActiveConnections[ret[h]]]
            /\ UNCHANGED conn
  /\ UNCHANGED <<backendConn, relays, served, ActiveConnections, copying, halfClosed,
                 lastCopy, progVars, callVars, histVars, otherAux>>
  /\ sweep(store)

\* line 140: ActiveConnections++ writes the field
HandleConnection_Inc(h) ==
  /\ ~panicked
  /\ hc[h] = "inc"
  /\ ActiveConnections' = [ActiveConnections EXCEPT ![ret[h]] = tmp[h] + 1]
  /\ hc' = [hc EXCEPT ![h] = "dial"]
  /\ UNCHANGED <<tmp, backendConn, relays, served, conn, copying, halfClosed,
                 lastCopy, progVars, callVars, histVars, otherAux>>
  /\ sweep(store)

\* lines 151-186: net.Dial; the error branch only logs, and on both outcomes
\* wg.Add(2) and the two go copyData(...) follow
HandleConnection_Dial(h) ==
  /\ ~panicked
  /\ hc[h] = "dial"
  /\ \E err \in BOOLEAN :
       /\ backendConn' = [backendConn EXCEPT ![h] = IF err THEN "nil" ELSE "open"]
       /\ relays' = [relays EXCEPT ![h] = 2]
       /\ copying' = [copying EXCEPT ![h] = Relays]
  /\ hc' = [hc EXCEPT ![h] = "wait"]
  /\ UNCHANGED <<tmp, served, ActiveConnections, conn, halfClosed, lastCopy,
                 progVars, callVars, histVars, otherAux>>
  /\ sweep(store)

\* copyData lines 203-224: io.Copy ends and wg.Done() runs; with the nil
\* backendConn io.Copy calls a method of a nil net.Conn: unrecovered panic
\* dst.(interface{ CloseWrite() error }): a TCP connection has CloseWrite;
\* backendConn comes from net.Dial("tcp", ...)
hasCloseWrite(h, dst) == IF dst = "conn" THEN conn[h] = "tcp" ELSE TRUE

\* if err != nil && err != io.EOF
closesAlways(err) == TRUE

closesWrite(err) == err # "nil" /\ err # "EOF"

copyData(h) ==
  /\ ~panicked
  /\ relays[h] > 0
  /\ IF backendConn[h] = "nil"
       THEN /\ panicked' = TRUE
            /\ UNCHANGED <<relays, copying, halfClosed, lastCopy>>
       ELSE /\ relays' = [relays EXCEPT ![h] = @ - 1]
            /\ \E dst \in copying[h] : \E err \in CopyErrors :
                 /\ copying' = [copying EXCEPT ![h] = @ \ {dst}]
                 /\ lastCopy' = [lastCopy EXCEPT ![h] = [dst |-> dst, err |-> err]]
                 /\ halfClosed' = [halfClosed EXCEPT ![h] =
                                     IF closesWrite(err) /\ hasCloseWrite(h, dst)
                                       THEN @ \cup {dst} ELSE @]
            /\ UNCHANGED panicked
  /\ UNCHANGED <<hc, tmp, backendConn, served, ActiveConnections, conn, nAlloc,
                 backendServers, nextServer, mu, lbVars, taskVars, callVars,
                 histVars, otherAux>>
  /\ sweep(store)

\* lines 198-200 and the deferred calls in reverse order: wg.Wait() returns,
\* backendConn.Close(), then ActiveConnections-- reads the field
waitSkipped(h) == TRUE

waitDone(h) == relays[h] = 0

HandleConnection_Release(h) ==
  /\ ~panicked
  /\ hc[h] = "wait"
  /\ waitDone(h)
  /\ backendConn' = [backendConn EXCEPT ![h] = "closed"]
  /\ tmp' = [tmp EXCEPT ![h] = ActiveConnections[ret[h]]]
  /\ hc' = [hc EXCEPT ![h] = "dec"]
  /\ UNCHANGED <<relays, served, ActiveConnections, conn, copying, halfClosed,
                 lastCopy, progVars, callVars, histVars, otherAux>>
  /\ sweep(store)

\* line 144: ActiveConnections-- writes the field; then the deferred
\* conn.Close() of lines 102-107 ends the handler
HandleConnection_Dec(h) ==
  /\ ~panicked
  /\ hc[h] = "dec"
  /\ ActiveConnections' = [ActiveConnections EXCEPT ![ret[h]] = tmp[h] - 1]
  /\ hc' = [hc EXCEPT ![h] = "idle"]
  /\ conn' = [conn EXCEPT ![h] = "closed"]
  /\ UNCHANGED <<tmp, backendConn, relays, served, copying, halfClosed, lastCopy,
                 progVars, callVars, histVars, otherAux>>
  /\ sweep(store)

\* the steps of getNextBackend inside a handler
connFrame == UNCHANGED <<histVars, otherAux, connVars>>

Conn_Lock(h)   == lockCore(h)   /\ connFrame /\ sweep(store)
Conn_Select(h) == selectCore(h) /\ connFrame /\ sweep(store)
Conn_Check(h)  == checkCore(h)  /\ connFrame /\ sweep(store)
Conn_Wake(h)   == wakeCore(h)   /\ connFrame /\ sweep(store)

NextConn ==
  \/ \E h \in Handlers : HandleConnection_Begin(h)
  \/ \E h \in Handlers : Conn_Lock(h)
  \/ \E h \in Handlers : Conn_Select(h)
  \/ \E h \in Handlers : Conn_Check(h)
  \/ \E h \in Handlers : Conn_Wake(h)
  \/ \E h \in Handlers : HandleConnection_Chosen(h)
  \/ \E h \in Handlers : HandleConnection_Inc(h)
  \/ \E h \in Handlers : HandleConnection_Dial(h)
  \/ \E h \in Handlers : copyData(h)
  \/ \E h \in Handlers : HandleConnection_Release(h)
  \/ \E h \in Handlers : HandleConnection_Dec(h)

SpecConn == InitConn /\ [][NextConn]_vars

\* ---------------------------------------------------------------- SpecMain
\* main with the load balancers it creates, one goroutine per Start, and the
\* signals the environment sends to the process
mainFrame == UNCHANGED <<lbState, earlyAux, curVars, lifeVars>>

InitMain ==
  /\ LbInit
  /\ EqIdle /\ MatIdle /\ AllIdle /\ ConnIdle /\ CurIdle /\ LifeIdle
  /\ mainN \in 0..MaxCfg
  /\ mainPc = "create"
  /\ mainI = 0
  /\ proxy = [p \in 1..MaxCfg |-> "none"]
  /\ mainAccepts = [p \in 1..MaxCfg |-> 0]
  /\ discoverer = FALSE
  /\ cycles = 0
  /\ notified = FALSE
  /\ signalled = FALSE
  /\ process = "running"

\* main lines 85-105, one iteration: NewLoadBalancer, wg.Add(1), go lb.Start()
main_NewLoadBalancer ==
  /\ process = "running"
  /\ mainPc = "create"
  /\ mainI < mainN
  /\ mainI' = mainI + 1
  /\ proxy' = [proxy EXCEPT ![mainI + 1] = "starting"]
  /\ UNCHANGED <<mainN, cycles, mainPc, mainAccepts, discoverer, notified, signalled, process>>
  /\ mainFrame

\* main lines 107-113: go kubernetes.DiscoverK8sServicesForAll(...)
main_Discover ==
  /\ process = "running"
  /\ mainPc = "create"
  /\ mainI = mainN
  /\ discoverer' = TRUE
  /\ mainPc' = "wait"
  /\ UNCHANGED <<mainN, cycles, mainI, proxy, mainAccepts, notified, signalled, process>>
  /\ mainFrame

\* DiscoverK8sServicesForAll lines 401-421: one iteration of the discovery loop
main_DiscoverCycle ==
  /\ process = "running"
  /\ discoverer
  /\ cycles < MaxDisc
  /\ cycles' = cycles + 1
  /\ UNCHANGED <<mainN, mainPc, mainI, proxy, mainAccepts, discoverer, notified,
                 signalled, process>>
  /\ mainFrame

\* Start lines 57-72 in the goroutine of load balancer p: net.Listen; on an
\* error the goroutine panics and nothing recovers: the process ends
main_Start(p) ==
  /\ process = "running"
  /\ proxy[p] = "starting"
  /\ \E err \in BOOLEAN :
       /\ proxy' = [proxy EXCEPT ![p] = IF err THEN "failed" ELSE "listening"]
       /\ process' = IF err THEN "panic" ELSE process
  /\ UNCHANGED <<mainN, cycles, mainPc, mainI, mainAccepts, discoverer, notified, signalled>>
  /\ mainFrame

\* Start lines 74-96 in the goroutine of load balancer p: lb.stopChan is open
\* (nothing closes it), listener.Accept() yields a connection
main_Accept(p) ==
  /\ process = "running"
  /\ proxy[p] = "listening"
  /\ mainAccepts[p] < MaxConn
  /\ mainAccepts' = [mainAccepts EXCEPT ![p] = @ + 1]
  /\ UNCHANGED <<mainN, cycles, mainPc, mainI, proxy, discoverer, notified, signalled, process>>
  /\ mainFrame

\* main lines 115-121: wg.Wait() returns when every Start has returned, which
\* takes a closed lb.stopChan; then signal.Notify
main_Wait ==
  /\ process = "running"
  /\ mainPc = "wait"
  /\ \A p \in 1..mainN : proxy[p] = "stopped"
  /\ notified' = TRUE
  /\ mainPc' = "signal"
  /\ UNCHANGED <<mainN, cycles, mainI, proxy, mainAccepts, discoverer, signalled, process>>
  /\ mainFrame

\* SIGINT or SIGTERM arrives: delivered to sigChan if signal.Notify has run,
\* otherwise the Go runtime ends the program (non-zero status)
main_Signal ==
  /\ process = "running"
  /\ ~signalled
  /\ signalled' = TRUE
  /\ process' = IF notified THEN process ELSE "killed"
  /\ UNCHANGED <<mainN, cycles, mainPc, mainI, proxy, mainAccepts, discoverer, notified>>
  /\ mainFrame

\* main lines 122-133: <-sigChan, then for every configuration a NEW
\* LoadBalancer is built and Stop is called on it (the load balancers main
\* started are not touched), then os.Exit(0)
main_Shutdown ==
  /\ process = "running"
  /\ mainPc = "signal"
  /\ signalled
  /\ mainPc' = "done"
  /\ process' = "exit0"
  /\ UNCHANGED <<mainN, cycles, mainI, proxy, mainAccepts, discoverer, notified, signalled>>
  /\ mainFrame

NextMain ==
  \/ main_NewLoadBalancer
  \/ main_Discover
  \/ main_DiscoverCycle
  \/ \E p \in 1..MaxCfg : main_Start(p)
  \/ \E p \in 1..MaxCfg : main_Accept(p)
  \/ main_Wait
  \/ main_Signal
  \/ main_Shutdown

SpecMain == InitMain /\ [][NextMain]_vars

\* =================================================================== claims
HealthyMatching == {o \in Range(backendServers) :
                      store[o].PortName = BackendPortName /\ store[o].Healthy}

keysOfPool == {store[o].key : o \in Range(backendServers)}

probeActive(o) == loops[o] > 0 /\ ~panicked

RECURSIVE sumOver(_, _)
sumOver(S, f) ==
  IF S = {} THEN 0
  ELSE LET x == CHOOSE y \in S : TRUE IN f[x] + sumOver(S \ {x}, f)

\* probe loops running or about to run for the (IP, Port) key k
probesOfKey(k) ==
  sumOver({o \in Obj : store[o].key = k}, [o \in Obj |-> rhcCache[o] + loops[o]])

quiescent ==
  /\ ~panicked
  /\ shc = 0
  /\ \A o \in Obj : rhc[o] = 0 /\ rhcCache[o] = 0

\* C1: whenever getNextBackend returns, under any interleaving of probes,
\* publications and selections, it returns nil or an endpoint whose Healthy
\* flag is true in the state of the return.
C1_HealthyAtReturn ==
  [][\A h \in Handlers :
       (pc[h] = "check" /\ pc'[h] = "done" /\ ret'[h] # Nil)
         => store'[ret'[h]].Healthy]_vars

\* a call returned an endpoint after skipping an unhealthy one, while a probe
\* loop was running
C1_Witness ==
  /\ pc[Caller] = "done" /\ ret[Caller] # Nil /\ slp[Caller] > 0
  /\ \E o \in Obj : loops[o] > 0

\* C2: every endpoint returned by getNextBackend has PortName equal to the
\* BackendPortName of the configuration, whatever the pool holds.
C2_PortNameGate ==
  \A h \in Handlers : ret[h] # Nil => store[ret[h]].PortName = BackendPortName

\* an endpoint was returned from a pool that also holds another port name
C2_Witness ==
  /\ pc[Caller] = "done" /\ ret[Caller] # Nil
  /\ \E o \in Range(backendServers) : store[o].PortName # BackendPortName

\* C3: with at least one healthy, port-matching endpoint in a pool that does
\* not change, every getNextBackend call returns a healthy endpoint (never nil).
C3_ReturnsHealthyWhenOneExists ==
  \A h \in Handlers :
    (pc[h] = "done" /\ HealthyMatching # {})
      => (ret[h] # Nil /\ store[ret[h]].Healthy)

\* C4: in a pool that does not change, any k = |H| consecutive successful
\* returns, taken in the order of the cursor advances, are exactly the healthy
\* port-matching set H.
C4_RoundRobin ==
  LET k == Cardinality(HealthyMatching) IN
    \A i, j \in 1..Len(rrLog) :
      LET oks == {m \in i..j : rrLog[m].st = "ok"} IN
        (/\ i <= j
         /\ k > 0
         /\ \A m \in i..j : rrLog[m].st # "pending"
         /\ Cardinality(oks) = k)
          => {rrLog[m].srv : m \in oks} = HealthyMatching

\* two different endpoints were returned one after the other to two handlers
\* whose calls overlapped, from a pool that also holds an unhealthy endpoint
C4_Witness ==
  /\ Cardinality(HealthyMatching) >= 2
  /\ \E o \in Range(backendServers) : ~store[o].Healthy
  /\ \E i, j \in 1..Len(rrLog) :
       /\ i < j
       /\ rrLog[i].st = "ok" /\ rrLog[j].st = "ok"
       /\ rrLog[i].srv # rrLog[j].srv
  /\ \A h \in Handlers : pc[h] = "done" /\ ret[h] # Nil

\* C5: a call makes at most three cursor advances and two sleeps; it returns
\* nil at once (no further advance, no sleep) when it finds the pool empty or
\* without a port-matching endpoint, and returns nil after exactly three
\* advances and two sleeps when every selected endpoint was unhealthy.
C5_BoundedRetries ==
  \A h \in Handlers :
    /\ adv[h] <= 3 /\ slp[h] <= 2
    /\ pc[h] \in {"sleep", "check"} => adv[h] = slp[h] + 1
    /\ (pc[h] = "done" /\ why[h] \in {"empty", "nomatch"})
         => (ret[h] = Nil /\ adv[h] = slp[h])
    /\ (pc[h] = "done" /\ why[h] = "exhausted")
         => (ret[h] = Nil /\ adv[h] = 3 /\ slp[h] = 2)
    /\ (pc[h] = "done" /\ ret[h] = Nil)
         => why[h] \in {"empty", "nomatch", "exhausted"}

\* a call gave up after its third unhealthy selection
C5_Witness ==
  pc[Caller] = "done" /\ why[Caller] = "exhausted" /\ adv[Caller] = 3 /\ slp[Caller] = 2

\* C6: the debounce rule of HealthCheck.  A running probe sets a healthy
\* endpoint unhealthy only on a failure that is at least the third in a row,
\* and does so on every such failure; a success resets the counter and leaves
\* the endpoint healthy; and a healthy endpoint whose probe has failed goes on
\* to a success or to the third failure that marks it unhealthy.
C6_Debounce ==
  /\ [][\A o \in Obj : loops[o] > 0 =>
          /\ (store[o].Healthy /\ ~store'[o].Healthy)
               <=> (store[o].Healthy /\ failureCounter'[o] = failureCounter[o] + 1
                      /\ failureCounter'[o] >= 3)
          /\ lastCheck'[o] # lastCheck[o]
               => (failureCounter'[o] = 0 /\ store'[o].Healthy)]_vars
  /\ \A o \in Obj :
       (loops[o] > 0 /\ failureCounter[o] >= 1 /\ store[o].Healthy)
         ~> (failureCounter[o] = 0 \/ ~store[o].Healthy \/ loops[o] = 0)

\* C7: at no time are two health-probe loops running (or about to run) for
\* the same (IP, Port) key.
C7_OneProbePerKey ==
  \A k \in Keys : probesOfKey(k) <= 1

\* a second object with the key of a running probe went through runHealthCheck
\* and no second loop was started
C7_Witness ==
  /\ quiescent
  /\ \E o1, o2 \in Obj :
       /\ o1 # o2
       /\ store[o1].key = store[o2].key
       /\ loops[o1] > 0
       /\ o2 \in Range(backendServers)
       /\ probesOfKey(store[o1].key) = 1

\* C8: once the publications have been reconciled (no StartHealthChecks or
\* runHealthCheck goroutine is pending), every object of the current pool is
\* the object a running probe works on (stated for pools that hold each
\* (IP, Port) once).
C8_PoolObjectsProbed ==
  (quiescent /\ Cardinality(keysOfPool) = Len(backendServers))
    => \A o \in Range(backendServers) : loops[o] > 0

\* C9: the probe of an endpoint whose (IP, Port) is no longer in the pool
\* eventually stops.
C9_RemovedProbeStops ==
  \A o \in Obj :
    (probeActive(o) /\ store[o].key \notin keysOfPool) ~> ~probeActive(o)

\* C10: once StopHealthChecks has closed the stop channel, every probe loop
\* eventually stops.
C10_StoppedProbesEnd ==
  \A o \in Obj : (stopHealthChecks /\ loops[o] > 0 /\ ~panicked) ~> (loops[o] = 0 \/ panicked)

\* C11: a discovery cycle that materializes the (IP, Port) set the pool
\* already holds is a no-op: every step that replaces the pool (and with it
\* the objects, their flags and the probe reconciliation) changes the set of
\* (IP, Port) keys of the pool.
C11_EqualSetNoOp ==
  [][backendServers' # backendServers => keysOfPool' # keysOfPool]_vars

\* the set of (IP, Port) pairs of a slice
pairsOf(servers) == {<<servers[i].IP, servers[i].Port>> : i \in 1..Len(servers)}

\* C12: backendsEqual(old, new) is true exactly when the slices have the same
\* length and the same set of (IP, Port) pairs, and swapping the arguments
\* gives the same result.
C12_BackendsEqualIsSetEquality ==
  eqPc = "done" =>
    /\ eqRes = (Len(eqOld) = Len(eqNew) /\ pairsOf(eqOld) = pairsOf(eqNew))
    /\ eqSwap = eqRes

\* the (IP, Port, PortName) of a BackendServer, and the bag of them in a slice
endpointIn(b) == <<b.IP, b.Port, b.PortName>>

bagOfSlice(servers) ==
  [e \in {endpointIn(servers[i]) : i \in 1..Len(servers)} |->
     Cardinality({i \in 1..Len(servers) : endpointIn(servers[i]) = e})]

C14_Materialization ==
  ~matFailed =>
    /\ bagOfSlice(matBackends) = matRef
    /\ \A i \in 1..Len(matBackends) : matBackends[i].PortName = matCfg

\* a list with a node-port service and a cluster-IP service was materialized
\* on a cluster with two usable nodes
C14_Witness ==
  /\ ~matFailed
  /\ matN = 2
  /\ Len(matBackends) = 3
  /\ matSvc.Type = "ClusterIP"
  /\ Len(matSvc.Ports) = 2
  /\ Len(matLast) = 1

C15_FetchFailureKeepsPools ==
  [][(allGroup' # "" /\ allFetch' = "failed" /\ allTodo' # allTodo)
       => /\ allPools' = allPools
          /\ allGo' = allGo
          /\ allPub' = allPub
          /\ allTodo' = allTodo \ {allGroup'}]_vars

\* the fetch of one group failed after the other group had published, the
\* published pool is still there and a group is left to visit
C15_Witness ==
  /\ allFetch = "failed"
  /\ allTodo # {}
  /\ \E i \in 1..Len(allCfgs) :
       allPools[i] # <<>> /\ namespaceKey(allCfgs[i]) = allGroup

\* C17: within one cycle a load balancer receives at most one
\* SetBackendServers call, and the slice it carries was materialized for the
\* load balancer's own configuration (same namespace group, same port name).
C17_OnePublishPerCycle ==
  \A i \in 1..Len(allCfgs) :
    /\ allPub[i] <= 1
    /\ allSrc[i] # 0 =>
         /\ namespaceKey(allCfgs[allSrc[i]]) = namespaceKey(allCfgs[i])
         /\ allCfgs[allSrc[i]].BackendPortName = allCfgs[i].BackendPortName

\* C18: a publication is atomic with respect to getNextBackend: while a call
\* is inside its locked section (between its emptiness check and its
\* filtering of lb.backendServers) the pool is not replaced, so both reads see
\* the same publication.
C18_PublishUnderLock ==
  [][(\E h \in Handlers : pc[h] = "locked") => backendServers' = backendServers]_vars

\* handlers that have counted themselves on the endpoint o and not yet released it
inFlight(o) ==
  {h \in Handlers : ret[h] = o /\ hc[h] \in {"dial", "wait", "dec"}}

\* C19: ActiveConnections of an endpoint is never negative, equals the number
\* of in-flight handlers that chose it whenever no handler is in the middle
\* of an update, and is 0 when every handler has exited.
C19_ActiveConnections ==
  ~panicked =>
    \A o \in Obj :
      /\ ActiveConnections[o] >= 0
      /\ (\A h \in Handlers : hc[h] \notin {"inc", "dec"})
           => ActiveConnections[o] = Cardinality(inFlight(o))

\* C20: a failed dial to the chosen backend ends only that session: no relay
\* is started for it and the process keeps running.
C20_DialFailureEndsSession ==
  \A h \in Handlers : backendConn[h] = "nil" => (relays[h] = 0 /\ ~panicked)

\* C26: the service list of a visited group was fetched scoped to the
\* namespace of every configuration of the group that names one, and the
\* unscoped query serves only configurations with an empty namespace.
C26_NamespaceScoping ==
  allGroup # "" =>
    \A i \in 1..Len(allCfgs) :
      namespaceKey(allCfgs[i]) = allGroup => allQuery = allCfgs[i].Namespace

uniqueNames ==
  \A i, j \in 1..Len(allCfgs) : allCfgs[i].Name = allCfgs[j].Name => i = j

\* C27: after a group's service list was fetched, the pool of each of its
\* configurations holds the (ip, port) set materialized for it in this cycle,
\* and a pool that was replaced holds exactly the materialized slice and had
\* one StartHealthChecks requested.
C27_PoolFollowsInventory ==
  (uniqueNames /\ allGroup # "" /\ allFetch = "ok") =>
    \A i \in 1..Len(allCfgs) :
      namespaceKey(allCfgs[i]) = allGroup =>
        /\ Range(allPools[i]) = Range(allInv[allCfgs[i].BackendPortName])
        /\ allPub[i] > 0 =>
             /\ allPools[i] = allInv[allCfgs[i].BackendPortName]
             /\ allGo[i] = allPub[i]

\* C28: a publication leaves the round-robin cursor as it is: the first
\* selection after SetBackendServers is the element at index (c + 1) mod n of
\* the new filtered sequence, c being the cursor value at the publication.
C28_CursorSurvivesPublication ==
  (sincePub = 1 /\ pc[Caller] = "check") =>
    LET filteredBackends == filterBackends(backendServers) IN
      /\ nextServer = (cursorAtPub + 1) % Len(filteredBackends)
      /\ sel[Caller] = filteredBackends[nextServer + 1]

\* two matching objects were published while the cursor was 1 and the first
\* selection took index 0 of them
C28_Witness ==
  /\ sincePub = 1
  /\ pc[Caller] = "check"
  /\ cursorAtPub = 1
  /\ Len(filterBackends(backendServers)) = 2
  /\ sel[Caller] = filterBackends(backendServers)[1]

\* C28 as stated: the publication resets the cursor, the first selection
\* after it is the element at index (0 + 1) mod n.
C28_PublicationResetsCursor ==
  (sincePub = 1 /\ pc[Caller] = "check") =>
    LET filteredBackends == filterBackends(backendServers) IN
      /\ nextServer = (0 + 1) % Len(filteredBackends)
      /\ sel[Caller] = filteredBackends[nextServer + 1]

\* C29: a successful dial starts the two relays; the handler closes
\* backendConn only when both have ended, and conn only after backendConn.
C29_CloseAfterRelays ==
  [][\A h \in Handlers :
       /\ (backendConn[h] # "open" /\ backendConn'[h] = "open")
            => (copying'[h] = Relays /\ relays'[h] = 2)
       /\ (backendConn[h] = "open" /\ backendConn'[h] = "closed")
            => copying[h] = {}
       /\ (backendConn[h] \in {"open", "closed"} /\ conn[h] \in ConnKinds
             /\ conn'[h] = "closed")
            => (copying[h] = {} /\ backendConn[h] = "closed")]_vars

\* a session whose dial succeeded has ended: both relays ran, both
\* connections are closed
C29_Witness ==
  \E h \in Handlers :
    /\ backendConn[h] = "closed"
    /\ conn[h] = "closed"
    /\ lastCopy[h].dst # "none"
    /\ copying[h] = {}

\* C30: a relay that ends with a non-EOF error half-closes the write side of
\* its destination if that connection has CloseWrite; a relay that ends
\* without error, and any other step of the session, half-closes nothing.
C30_HalfCloseOnError ==
  [][\A h \in Handlers :
       IF copying'[h] # copying[h] /\ copying'[h] \subseteq copying[h]
         THEN LET c == lastCopy'[h] IN
                halfClosed'[h] =
                  halfClosed[h] \cup
                    (IF c.err \notin {"nil", "EOF"}
                        /\ (c.dst = "backendConn" \/ conn[h] = "tcp")
                       THEN {c.dst} ELSE {})
         ELSE halfClosed'[h] \subseteq halfClosed[h]]_vars

\* the relay towards the backend ended with an error and the backend
\* connection is half-closed, while the other relay is still running
C30_Witness ==
  \E h \in Handlers :
    /\ lastCopy[h] = [dst |-> "backendConn", err |-> "reset"]
    /\ halfClosed[h] = {"backendConn"}
    /\ copying[h] = {"conn"}

\* C23: once Stop has closed lb.stopChan the LoadBalancer holds no open
\* listener and accepts no connection.
C23_OneWayLifecycle ==
  [][stopChan => (Listener' # "open" /\ accepts' = accepts)]_vars

\* C24: a call of Stop does not end in a panic; its first part leaves the
\* stop channel closed and the listener cleared, and it returns with the
\* health-check stop channel closed as well.
C24_StopReturns ==
  [][/\ Stop_Close => (~panicked' /\ stopChan' /\ Listener' = "nil")
     /\ Stop_HealthChecks => (~panicked' /\ stopChan' /\ stopHealthChecks')]_vars

\* C25: every call of StopHealthChecks leaves the channel closed, and a call
\* that finds it closed changes nothing: no second close, no panic.
C25_StopHealthChecksIdempotent ==
  [][shcCalls' # shcCalls =>
       /\ stopHealthChecks'
       /\ ~panicked'
       /\ stopHealthChecks => UNCHANGED <<store, progVars, callVars>>]_vars

\* StopHealthChecks has been called three times, also after Stop had closed
\* the channel, and the process is alive
C25_Witness ==
  /\ shcCalls = MaxCalls
  /\ stopHealthChecks
  /\ stopChan
  /\ stopPc = "idle"
  /\ ~panicked

\* C21: a bind failure of one load balancer leaves the process running: the
\* other load balancers and the discovery go on.
C21_BindFailureIsLocal ==
  (\E p, q \in 1..MaxCfg : proxy[p] = "failed" /\ proxy[q] = "listening")
    => process = "running"

\* C22: a signal that arrives while load balancers are listening does not
\* kill the process; the process exits with code 0 only after Stop has been
\* called on every load balancer main started.
C22_GracefulShutdown ==
  /\ (signalled /\ \E p \in 1..MaxCfg : proxy[p] = "listening") => process # "killed"
  /\ process = "exit0" => \A p \in 1..mainN : proxy[p] = "stopped"

\* C31: the accept loop hands every accepted connection to a goroutine of its
\* own and goes on accepting whatever the earlier handlers do (with clients
\* that keep connecting it accepts further connections although no handler
\* ever finishes); an error of Accept leaves the loop running; and once the
\* listener has been closed by Stop the loop returns.
C31_AcceptLoop ==
  /\ [][accepts' # accepts => (tasks' = tasks + 1 /\ ~returned')]_vars
  /\ [][acceptErrs' # acceptErrs =>
          (~returned' /\ ~panicked' /\ started' /\ tasks' = tasks)]_vars
  /\ (started /\ ~panicked) ~> (accepts = MaxAcc \/ returned \/ panicked)
  /\ (started /\ ~panicked /\ Listener = "nil") ~> (returned \/ panicked)

\* the loop has returned after Stop closed the listener, having accepted two
\* connections whose handlers are both still running and survived an Accept
\* error
C31_Witness ==
  /\ returned
  /\ Listener = "nil"
  /\ accepts = MaxAcc
  /\ tasks = MaxAcc
  /\ acceptErrs = MaxErr
  /\ ~panicked

\* C37: getNextBackend never indexes outside the filtered sequence: whatever
\* cursor earlier calls left and whatever publications shrank, grew or emptied
\* the pool between or during the calls, the step that advances the cursor does
\* not panic, and the cursor it stores, which is the index it uses, lies in
\* 0..len(filteredBackends)-1.
C37_IndexInRange ==
  [][(pc[Caller] = "locked" /\ (pc'[Caller] # "locked" \/ panicked')) =>
       /\ ~panicked'
       /\ pc'[Caller] = "check" =>
            /\ nextServer' \in 0..(Len(filterBackends(backendServers)) - 1)
            /\ sel'[Caller] = filterBackends(backendServers)[nextServer' + 1]]_vars

\* a publication left the cursor beyond the end of the one-element pool it
\* installed, and the first selection after it has wrapped the cursor
C37_Witness ==
  /\ sincePub = 1
  /\ pc[Caller] = "check"
  /\ Len(filterBackends(backendServers)) = 1
  /\ cursorAtPub >= Len(filterBackends(backendServers))
  /\ nextServer = 0
  /\ sel[Caller] = filterBackends(backendServers)[1]

\* C34: a failed probe dial ends neither the probe nor the process: the
\* iteration that counts the failure leaves the process running and the probe
\* in its loop, with the counter one higher and the flag set by the debounce
\* rule.
C34_ProbeSurvivesDialFailure ==
  [][\A o \in Obj :
       (loops[o] > 0 /\ failureCounter'[o] = failureCounter[o] + 1) =>
         /\ ~panicked'
         /\ loops'[o] > 0
         /\ store'[o].Healthy = healthAfterFailure(failureCounter'[o], store[o].Healthy)]_vars

\* C40: the runHealthCheck goroutines touch healthCheckMap and
\* healthCheckCache only under lb.mu, so no two of them are in the code that
\* reads and writes one of the maps at the same time, and none is there while
\* a getNextBackend call holds the mutex.
C40_MapsUnderLock ==
  /\ \A o, p \in Obj : (rhcCache[o] > 0 /\ rhcCache[p] > 0) => o = p
  /\ \A o \in Obj : rhcCache[o] > 0 => (rhcCache[o] = 1 /\ mu = NoOne)

\* C32: concurrent getNextBackend calls, also while publications and probes
\* run, never deadlock and all complete: no call sleeps with the mutex held,
\* no call is cut off before it returns, and a call that selected a healthy
\* endpoint returns it.
C32_ConcurrentCalls ==
  [][/\ \A h \in Handlers : pc'[h] = "sleep" => mu' # h
     /\ panicked' => \A h \in Handlers : pc'[h] \in {"idle", "done"}
     /\ \A h \in Handlers :
          (pc[h] = "check" /\ pc'[h] # "check" /\ store[sel[h]].Healthy)
            => (pc'[h] = "done" /\ ret'[h] = sel[h])]_vars

\* C38: Stop is idempotent: a call of Stop on a LoadBalancer that an earlier
\* Stop has stopped (both channels closed) does not fail and leaves it stopped:
\* the stop channel is not closed a second time.
C38_StopIdempotent ==
  [][(stopChan /\ stopHealthChecks /\ stopPc = "idle" /\ Stop_Close) =>
       (~panicked' /\ stopChan' /\ stopHealthChecks' /\ Listener' = "nil")]_vars

\* C33: every endpoint that processServicesForConfig creates for publication
\* has a port in 1..65535, whatever the service inventory, node ports that
\* are 0 or unset included.
C33_PortInRange ==
  \A i \in 1..Len(matBackends) : matBackends[i].Port \in 1..65535

\* C39: the slice that processServicesForConfig produces for publication holds
\* each (ip, port) at most once, whatever the service inventory.
C39_NoDuplicateEndpoints ==
  \A i, j \in 1..Len(matBackends) :
    (matBackends[i].IP = matBackends[j].IP /\ matBackends[i].Port = matBackends[j].Port)
      => i = j

\* C36: end-of-stream is propagated: a relay that ends because its source
\* reached a clean end-of-stream (io.Copy returns nil, or io.EOF) half-closes
\* the write side of its destination, in either direction, so that the peer
\* observes the end-of-stream.
C36_EndOfStreamPropagated ==
  [][\A h \in Handlers :
       (copying'[h] # copying[h] /\ copying'[h] \subseteq copying[h]
          /\ lastCopy'[h].err \in {"nil", "EOF"}
          /\ hasCloseWrite(h, lastCopy'[h].dst))
         => lastCopy'[h].dst \in halfClosed'[h]]_vars

\* C35: a publication of the discovery that changes the set but retains an
\* (ip, port) whose endpoint in the pool is unhealthy does not make that
\* (ip, port) selectable: the endpoint of that (ip, port) in the new pool is
\* unhealthy too, so getNextBackend does not return it before a probe has
\* succeeded.
C35_UnhealthyStaysUnselectable ==
  [][discoverServicesForNamespace =>
       \A i \in 1..Len(backendServers') : \A j \in 1..Len(backendServers) :
         (store'[backendServers'[i]].key = store[backendServers[j]].key
            /\ ~store[backendServers[j]].Healthy)
           => ~store'[backendServers'[i]].Healthy]_vars

====
